---- MODULE Spec2Model ----
(***************************************************************************)
(* Batch migration engine of doc-migration-mcp-server.py: the global       *)
(* migration_status registry, the batch_migrate and get_migration_status   *)
(* branches of call_tool, and the background coroutine batch_migrate_task  *)
(* with the two platform migrators it awaits.                              *)
(*                                                                         *)
(* The server runs on one asyncio event loop: a coroutine runs without     *)
(* interruption from one suspension point (an await on the pandoc          *)
(* subprocess or on the HTTP request) to the next, so every action below   *)
(* is one such uninterrupted run.                                          *)
(***************************************************************************)
EXTENDS Integers, Sequences, FiniteSets, TLC

\* ---------------------------------------------------------------- bounds
MaxNow == 2          \* the wall clock runs over instants 0..MaxNow
TicksPerSecond == 2  \* clock instants per wall-clock second
MaxBatches == 2      \* batch_migrate calls per run
MaxDocs == 2         \* documents per batch

\* ---------------------------------------------------------------- inputs
\* A document as it arrives in arguments["documents"]: a dict with "content"
\* and an optional "title", a dict without "content", or a value that is no
\* dict at all (a bare JSON string, written [str |-> ...] here).  Nothing in
\* call_tool checks the shape before the task indexes the document.
\* The document lists submitted: the runs of up to MaxDocs consecutive documents
\* of a ring holding one document of each shape.
Library ==
    << [content |-> "md", title |-> "A"], [content |-> "md"], [title |-> "A"], [str |-> "md"] >>

Window(s, n) == [k \in 1..n |-> Library[((s + k - 2) % Len(Library)) + 1]]

DocLists == { Window(s, n) : s \in 1..Len(Library), n \in 0..MaxDocs }

IsDict(doc) == "str" \notin DOMAIN doc

Platforms == {"confluence", "notion", "gitbook"}

\* A config is the set of keys the caller supplied.
ConfluenceKeys == {"base_url", "api_token", "space_key"}
NotionKeys == {"api_token", "database_id"}
Configs == { ConfluenceKeys \cup NotionKeys, {"base_url", "database_id"} }

\* What the HTTP request can end with: a status code and whether the JSON
\* body carries the page id and url.  status 0 stands for an exception raised
\* by aiohttp instead of a response, and body is then str(e) as a list of
\* words: a refused connection has a message, asyncio.TimeoutError has none.
Responses ==
    { [status |-> 200, body |-> "page"],
      [status |-> 404, body |-> "other"],
      [status |-> 0,   body |-> <<"Cannot connect to host">>] }

\* The outcomes a single migrator call is checked against.
JobResponses ==
    Responses \cup
    { [status |-> 200, body |-> "other"],
      [status |-> 201, body |-> "page"],
      [status |-> 500, body |-> "other"],
      [status |-> 0,   body |-> << >>] }

\* config.get('title'), when the caller of a migrator tool supplies one.
JobTitles == {"A", "Document 1", "none"}

VARIABLES
    now,               \* datetime.now(), in clock instants
    migration_status,  \* the registry: task_id -> status dict
    tasks,             \* the batch_migrate_task coroutines, in creation order
    reply,             \* the last get_migration_status call: its task_id and what it returned
    job                \* one migrate_to_confluence / migrate_to_notion tool call

vars == <<now, migration_status, tasks, reply, job>>

\* ------------------------------------------------------------ pure parts
\* strftime('%Y%m%d_%H%M%S') keeps the clock down to the second.
TaskId(t) == t \div TicksPerSecond

TaskIds == { TaskId(t) : t \in 0..MaxNow }

\* Mutant of DocumentLabel: the default label uses the 0-based loop index.
DocumentLabel_ZeroBased(doc, i) ==
    IF "title" \in DOMAIN doc THEN doc.title ELSE "Document " \o ToString(i - 1)

\* doc.get('title', f'Document {i+1}'), with i the 1-based position here.
DocumentLabel(doc, i) ==
    IF "title" \in DOMAIN doc THEN doc.title ELSE "Document " \o ToString(i)

\* Mutant of InitialStatus: total starts at 0 instead of len(documents).
InitialStatus_ZeroTotal(documents, t) ==
    [ status |-> "running",
      total |-> 0,
      completed |-> 0,
      failed |-> 0,
      results |-> << >>,
      start_time |-> t ]

\* The status dict batch_migrate registers (lines 531-538).
InitialStatus(documents, t) ==
    [ status |-> "running",
      total |-> Len(documents),
      completed |-> 0,
      failed |-> 0,
      results |-> << >>,
      start_time |-> t ]

\* {'success': False, 'error': str(e)}; a message is a list of words.
Failure(msg) == [success |-> FALSE, error |-> msg]

\* Mutant of RecordResult: the result is put in front of the list.
RecordResult_Prepended(st, label, result) ==
    LET put == [st EXCEPT !.results = <<[document |-> label, result |-> result]>> \o @]
    IN  IF result.success
        THEN [put EXCEPT !.completed = @ + 1]
        ELSE [put EXCEPT !.failed = @ + 1]

\* Lines 585-593: append the result, then count it.
RecordResult(st, label, result) ==
    LET appended == [st EXCEPT !.results = Append(@, [document |-> label, result |-> result])]
    IN  IF result.success
        THEN [appended EXCEPT !.completed = @ + 1]
        ELSE [appended EXCEPT !.failed = @ + 1]

\* Lines 595-600: the inner handler counts the failure, then appends it.
RecordException(st, label, msg) ==
    LET counted == [st EXCEPT !.failed = @ + 1]
    IN  [counted EXCEPT !.results = Append(@, [document |-> label, result |-> Failure(msg)])]

\* Lines 602-603.
MarkCompleted(st, t) ==
    [ k \in DOMAIN st \cup {"end_time"} |->
        IF k = "status" THEN "completed"
        ELSE IF k = "end_time" THEN t
        ELSE st[k] ]

\* Lines 605-608: the outer handler.
MarkFailed(st, msg, t) ==
    [ k \in DOMAIN st \cup {"error", "end_time"} |->
        IF k = "status" THEN "failed"
        ELSE IF k = "error" THEN msg
        ELSE IF k = "end_time" THEN t
        ELSE st[k] ]

\* Lines 596-608 for a document that is no dict: indexing it raised, the inner
\* handler counts the failure (line 596), doc.get raises while the result is
\* being built (line 598), and the outer handler ends the batch.
RecordFatal(st, t) ==
    MarkFailed([st EXCEPT !.failed = @ + 1], <<"'str' object has no attribute 'get'">>, t)

\* Lines 253-262 and 322-328: the config keys each migrator indexes, in order.
RequiredKeys(platform) ==
    IF platform = "confluence"
    THEN <<"base_url", "api_token", "space_key">>
    ELSE <<"api_token", "database_id">>

HasRequiredKeys(platform, config) ==
    \A n \in 1..Len(RequiredKeys(platform)) : RequiredKeys(platform)[n] \in config

\* The KeyError of the first required key that config lacks: str(e) is the quoted key.
MissingKeyError(platform, config) ==
    LET keys == RequiredKeys(platform)
        first == CHOOSE n \in 1..Len(keys) :
                    /\ keys[n] \notin config
                    /\ \A m \in 1..(n - 1) : keys[m] \in config
    IN  << "'" \o keys[first] \o "'" >>

\* Line 212: the exception raised for a pandoc exit code other than 0.
PandocError == <<"Pandoc failed:", "stderr">>

\* Mutant of PublishResult: any 2xx status is taken for success, the body unread.
PublishResult_Any2xx(platform, response, title) ==
    IF response.status = 0 THEN Failure(response.body)
    ELSE IF response.status \in 200..299
         THEN [success |-> TRUE, page_id |-> "id", page_url |-> "url", title |-> title]
         ELSE Failure(<< (IF platform = "confluence" THEN "Confluence" ELSE "Notion")
                           \o " API error:", ToString(response.status), "-", "text" >>)

\* Lines 276-294 and 339-357: what the migrator returns for an HTTP outcome.
\* Only status 200 is read as success; a body without the id or url raises
\* KeyError, and every exception becomes a failure carrying str(e).
PublishResult(platform, response, title) ==
    IF response.status = 0 THEN Failure(response.body)
    ELSE IF response.status = 200
         THEN IF response.body = "page"
              THEN [success |-> TRUE, page_id |-> "id", page_url |-> "url", title |-> title]
              ELSE Failure(<<"'id'">>)
         ELSE Failure(<< (IF platform = "confluence" THEN "Confluence" ELSE "Notion")
                           \o " API error:", ToString(response.status), "-", "text" >>)

\* What the task has done for one document: the title it passed to the
\* migrator ("-" when none was called), how often pandoc and the POST were
\* started, how pandoc ended ("not run", "ok" or "failed"), and the result
\* it folded.
JobRecord(label, title, transforms, posts, pandoc, result) ==
    [ label |-> label, title |-> title, transforms |-> transforms, posts |-> posts,
      pandoc |-> pandoc, result |-> result ]

\* The task moves on to the next document after folding `result`.
Advance(task, title, result) ==
    [ task EXCEPT
        !.jobs = Append(@, JobRecord(DocumentLabel(task.documents[task.i], task.i), title,
                                     task.transforms, task.posts, task.pandoc, result)),
        !.i = @ + 1,
        !.transforms = 0,
        !.posts = 0,
        !.pandoc = "not run" ]

\* Lines 572-608, from the top of the loop at position task.i up to the next
\* suspension: documents that need no external call are folded on the way,
\* running off the end of the list marks the batch completed, and a document
\* that is no dict ends the task through the outer handler.
RECURSIVE batch_migrate_task(_, _, _)
batch_migrate_task(ms, task, t) ==
    IF task.i > Len(task.documents)
    THEN [ ms   |-> [ms EXCEPT ![task.task_id] = MarkCompleted(@, t)],
           task |-> [task EXCEPT !.pc = "done"] ]
    ELSE
      LET doc   == task.documents[task.i]
          label == DocumentLabel(doc, task.i)
      IN  IF ~IsDict(doc)
          THEN [ ms   |-> [ms EXCEPT ![task.task_id] = RecordFatal(@, t)],
                 task |-> [task EXCEPT !.pc = "done"] ]
          ELSE IF task.target_platform \notin {"confluence", "notion"}
          THEN batch_migrate_task(
                   [ms EXCEPT ![task.task_id] =
                       RecordResult(@, label, Failure(<<"unsupported platform:", task.target_platform>>))],
                   Advance(task, "-",
                           Failure(<<"unsupported platform:", task.target_platform>>)), t)
          ELSE IF "content" \notin DOMAIN doc
          THEN batch_migrate_task(
                   [ms EXCEPT ![task.task_id] = RecordException(@, label, <<"'content'">>)],
                   Advance(task, "-", Failure(<<"'content'">>)), t)
          ELSE IF task.target_platform = "confluence"
          THEN [ms |-> ms, task |-> [task EXCEPT !.pc = "pandoc", !.transforms = @ + 1]]
          ELSE IF HasRequiredKeys("notion", task.config)
          THEN [ms |-> ms, task |-> [task EXCEPT !.pc = "http", !.posts = @ + 1]]
          ELSE batch_migrate_task(
                   [ms EXCEPT ![task.task_id] =
                       RecordResult(@, label, Failure(MissingKeyError("notion", task.config)))],
                   Advance(task, label,
                           Failure(MissingKeyError("notion", task.config))), t)

\* The migrator called for the current document returned `result`: fold it
\* and go on.
Resume(ms, task, result, t) ==
    LET label == DocumentLabel(task.documents[task.i], task.i)
    IN  batch_migrate_task([ms EXCEPT ![task.task_id] = RecordResult(@, label, result)],
                           Advance(task, label, result), t)

\* ---------------------------------------------------------------- state
NoJob == [pc |-> "idle"]

Init ==
    /\ now = 0
    /\ migration_status = [id \in {} |-> 0]
    /\ tasks = << >>
    /\ reply = [task_id |-> -1, body |-> [error |-> "no call"]]
    /\ job = NoJob

\* The clock advances.
Tick ==
    /\ now < MaxNow
    /\ now' = now + 1
    /\ UNCHANGED <<migration_status, tasks, reply, job>>

\* call_tool("batch_migrate"), lines 522-547: no await, so one step.
batch_migrate(documents, target_platform, config) ==
    /\ Len(tasks) < MaxBatches
    /\ LET task_id == TaskId(now)
       IN  /\ migration_status' =
                [id \in DOMAIN migration_status \cup {task_id} |->
                    IF id = task_id THEN InitialStatus(documents, now)
                    ELSE migration_status[id]]
           /\ tasks' = Append(tasks,
                [ task_id |-> task_id, documents |-> documents,
                  target_platform |-> target_platform, config |-> config,
                  i |-> 1, pc |-> "created",
                  transforms |-> 0, posts |-> 0, pandoc |-> "not run", jobs |-> << >> ])
    /\ UNCHANGED <<now, reply, job>>

\* Mutant of StatusReply: an unknown id is answered with an empty status.
StatusReply_Default(ms, task_id) ==
    IF task_id \notin DOMAIN ms
    THEN InitialStatus(<< >>, 0)
    ELSE ms[task_id]

\* call_tool("get_migration_status"), lines 549-559.
StatusReply(ms, task_id) ==
    IF task_id \notin DOMAIN ms
    THEN [error |-> "not found"]
    ELSE ms[task_id]

get_migration_status(task_id) ==
    /\ reply' = [task_id |-> task_id, body |-> StatusReply(migration_status, task_id)]
    /\ UNCHANGED <<now, migration_status, tasks, job>>

\* The event loop's continuation of task k with the outcome of a run of the loop.
Continue(k, run) ==
    /\ migration_status' = run.ms
    /\ tasks' = [tasks EXCEPT ![k] = run.task]
    /\ UNCHANGED <<now, reply, job>>

\* The event loop first schedules the coroutine created at line 541.
TaskStart(k) ==
    /\ tasks[k].pc = "created"
    /\ Continue(k, batch_migrate_task(migration_status, tasks[k], now))

\* Mutant of AfterPandoc: the request is sent although pandoc failed.
AfterPandoc_PostAnyway(ms, task, ok, t) ==
    LET exited == [task EXCEPT !.pandoc = IF ok THEN "ok" ELSE "failed"]
    IN  IF HasRequiredKeys("confluence", task.config)
        THEN [ms |-> ms, task |-> [exited EXCEPT !.pc = "http", !.posts = @ + 1]]
        ELSE Resume(ms, exited, Failure(MissingKeyError("confluence", task.config)), t)

\* Lines 250-276 once pandoc has exited: a non-zero exit raises (line 212) and
\* the migrator returns the failure; otherwise the request is built, where a
\* missing config key raises, and posted.
AfterPandoc(ms, task, ok, t) ==
    LET exited == [task EXCEPT !.pandoc = IF ok THEN "ok" ELSE "failed"]
    IN  IF ~ok
        THEN Resume(ms, exited, Failure(PandocError), t)
        ELSE IF HasRequiredKeys("confluence", task.config)
        THEN [ms |-> ms, task |-> [exited EXCEPT !.pc = "http", !.posts = @ + 1]]
        ELSE Resume(ms, exited, Failure(MissingKeyError("confluence", task.config)), t)

\* pandoc exits (line 209 returns).
PandocReturns(k, ok) ==
    /\ tasks[k].pc = "pandoc"
    /\ Continue(k, AfterPandoc(migration_status, tasks[k], ok, now))

\* pandoc never exits: process.communicate() at line 209 has no timeout.
PandocHangs(k) ==
    /\ tasks[k].pc = "pandoc"
    /\ tasks' = [tasks EXCEPT ![k].pc = "pandoc_hung"]
    /\ UNCHANGED <<now, migration_status, reply, job>>

\* The POST at line 276 / 339 ends with `response`.
HttpReturns(k, response) ==
    /\ tasks[k].pc = "http"
    /\ Continue(k, Resume(migration_status, tasks[k],
                          PublishResult(tasks[k].target_platform, response,
                                        DocumentLabel(tasks[k].documents[tasks[k].i], tasks[k].i)),
                          now))

Next ==
    \/ Tick
    \/ \E d \in DocLists, p \in Platforms, c \in Configs : batch_migrate(d, p, c)
    \/ \E id \in TaskIds : get_migration_status(id)
    \/ \E k \in 1..Len(tasks) : TaskStart(k)
    \/ \E k \in 1..Len(tasks), ok \in BOOLEAN : PandocReturns(k, ok)
    \/ \E k \in 1..Len(tasks) : PandocHangs(k)
    \/ \E k \in 1..Len(tasks), r \in Responses : HttpReturns(k, r)

Spec == Init /\ [][Next]_vars

\* ------------------------------------------------- one migrator tool call
\* call_tool("migrate_to_confluence") and call_tool("migrate_to_notion"),
\* lines 506-520: the same two migrators the batch task awaits, called with
\* the caller's own config.
JobConfigs == Configs \cup { {"base_url", "api_token", "database_id"}, {} }

\* config.get('title', 'Migrated Document').
ConfigTitle(title) == IF title = "none" THEN "Migrated Document" ELSE title

NoResponse == [status |-> -1, body |-> "none"]

JobReturned(j, response, result) ==
    [j EXCEPT !.pc = "returned", !.response = response, !.result = result]

\* Lines 253-276 / 318-338: building the request indexes the config, which
\* raises KeyError for a missing key; otherwise the POST is sent.
JobPost(j) ==
    IF HasRequiredKeys(j.platform, j.config)
    THEN [j EXCEPT !.pc = "http", !.posts = @ + 1]
    ELSE JobReturned(j, NoResponse, Failure(MissingKeyError(j.platform, j.config)))

\* The migrator up to its first suspension: Confluence content goes through
\* pandoc (line 250), Notion content through the in-process parser (line 301).
migrate_tool(platform, config, title) ==
    /\ job.pc \in {"idle", "returned"}
    /\ LET j == [ platform |-> platform, config |-> config, title |-> title,
                  transforms |-> 0, posts |-> 0, pandoc |-> "not run", pc |-> "called",
                  response |-> NoResponse, result |-> Failure(<<"pending">>) ]
       IN  job' = IF platform = "confluence"
                  THEN [j EXCEPT !.pc = "pandoc", !.transforms = @ + 1]
                  ELSE JobPost(j)
    /\ UNCHANGED <<now, migration_status, tasks, reply>>

JobPandocReturns(ok) ==
    /\ job.pc = "pandoc"
    /\ job' = IF ok THEN JobPost([job EXCEPT !.pandoc = "ok"])
                    ELSE JobReturned([job EXCEPT !.pandoc = "failed"], NoResponse,
                                     Failure(PandocError))
    /\ UNCHANGED <<now, migration_status, tasks, reply>>

JobHttpReturns(response) ==
    /\ job.pc = "http"
    /\ job' = JobReturned(job, response,
                          PublishResult(job.platform, response, ConfigTitle(job.title)))
    /\ UNCHANGED <<now, migration_status, tasks, reply>>

NextJob ==
    \/ \E p \in {"confluence", "notion"}, c \in JobConfigs, t \in JobTitles : migrate_tool(p, c, t)
    \/ \E ok \in BOOLEAN : JobPandocReturns(ok)
    \/ \E r \in JobResponses : JobHttpReturns(r)

SpecJob == Init /\ [][NextJob]_vars

\* ---------------------------------------------------------------- claims
Registered == DOMAIN migration_status

\* A reply that carries a status, as opposed to the not-found error.
IsStatus(body) == "status" \in DOMAIN body

Counted(st) == st.completed + st.failed

IsPrefix(s, t) == Len(s) <= Len(t) /\ SubSeq(t, 1, Len(s)) = s

\* The step is a batch_migrate call / a get_migration_status call.
Submitted == Len(tasks') = Len(tasks) + 1

Polled == reply' # reply

\* C1 (as claimed): in every state, for every registered batch, and in every
\* status a poll has returned, the length of results equals completed + failed.
C1_ResultsMatchCounts ==
    /\ \A id \in Registered :
          Len(migration_status[id].results) = Counted(migration_status[id])
    /\ IsStatus(reply.body) => Len(reply.body.results) = Counted(reply.body)

\* The task created by the latest submission that registered `id`.
LastSubmitted(id) ==
    CHOOSE k \in 1..Len(tasks) :
        /\ tasks[k].task_id = id
        /\ \A j \in 1..Len(tasks) : tasks[j].task_id = id => j <= k

\* C2 (as claimed): total stays the number of documents submitted when the
\* status was created, and completed + failed never exceeds it.
C2_CountsWithinTotal ==
    \A id \in Registered :
        /\ migration_status[id].total = Len(tasks[LastSubmitted(id)].documents)
        /\ Counted(migration_status[id]) <= migration_status[id].total

\* C3 (as claimed): a batch whose state is not running has
\* completed + failed = total.
C3_TerminalCountsAll ==
    \A id \in Registered :
        migration_status[id].status # "running"
            => Counted(migration_status[id]) = migration_status[id].total

\* C4 (as claimed): a submission never takes the id of a batch already in
\* the registry, so no two submitted batches share an id.
C4_FreshBatchId ==
    \A j, k \in 1..Len(tasks) : j # k => tasks[j].task_id # tasks[k].task_id

\* C5 (as claimed): once the state stored under an id is completed or
\* failed, no step changes it.
C5_TerminalNeverReverts ==
    [][ \A id \in Registered :
            migration_status[id].status # "running"
                => migration_status'[id].status = migration_status[id].status ]_vars

\* C6 (as claimed): of two successive reads of one id, the later shows
\* completed, failed and their sum no smaller, and results extended.
C6_MonotonicReads ==
    [][ (Polled /\ reply'.task_id = reply.task_id /\ IsStatus(reply.body) /\ IsStatus(reply'.body))
            => /\ reply'.body.completed >= reply.body.completed
               /\ reply'.body.failed >= reply.body.failed
               /\ Counted(reply'.body) >= Counted(reply.body)
               /\ IsPrefix(reply.body.results, reply'.body.results) ]_vars

\* C7 (as claimed): a read that follows a read of the same id which showed
\* a terminal state returns the same snapshot.
C7_TerminalSnapshotStable ==
    [][ (reply'.task_id = reply.task_id /\ IsStatus(reply.body) /\ reply.body.status # "running")
            => reply'.body = reply.body ]_vars

\* C8: the step that submits a batch of N documents leaves its task not yet
\* started and its id answering a read with state running, no results, zero
\* counts and total N; no step removes an id from the registry, and a read of
\* the id of a submitted batch never returns not-found.
C8_RegisteredBeforeReturn ==
    [][ /\ Submitted =>
            LET task == tasks'[Len(tasks')]
                body == StatusReply(migration_status', task.task_id)
            IN  /\ task.pc = "created"
                /\ IsStatus(body)
                /\ body.status = "running"
                /\ body.results = << >>
                /\ body.completed = 0
                /\ body.failed = 0
                /\ body.total = Len(task.documents)
        /\ Registered \subseteq DOMAIN migration_status'
        /\ \A k \in 1..Len(tasks) : tasks[k].task_id \in Registered
        /\ (Polled /\ \E k \in 1..Len(tasks) : tasks[k].task_id = reply'.task_id)
              => IsStatus(reply'.body) ]_vars

\* C8 witness: a read right after a submission of two documents, before the
\* task has run, returned the fresh status.
C8_Witness ==
    /\ Len(tasks) = 1
    /\ tasks[1].pc = "created"
    /\ Len(tasks[1].documents) = 2
    /\ reply.task_id = tasks[1].task_id
    /\ IsStatus(reply.body)
    /\ reply.body.status = "running"
    /\ reply.body.total = 2
    /\ reply.body.results = << >>

\* What the event loop can do for task k once its awaited call has ended.
TaskStep(k) ==
    \/ TaskStart(k)
    \/ \E ok \in BOOLEAN : PandocReturns(k, ok)
    \/ \E r \in Responses : HttpReturns(k, r)

\* C9 (as claimed): every external call of a job ends or times out, so a task
\* that has not finished can always be continued.
C9_NoBatchStuck ==
    \A k \in 1..Len(tasks) : tasks[k].pc # "done" => ENABLED TaskStep(k)

\* C10 (as claimed): at the step that ends a batch's task, the status under
\* its id holds one result per submitted document and nothing else, and every
\* document was counted once.
C10_OneResultPerDocument ==
    [][ \A k \in 1..Len(tasks) :
            (tasks[k].pc # "done" /\ tasks'[k].pc = "done") =>
                LET st == migration_status'[tasks[k].task_id]
                    n  == Len(tasks[k].documents)
                IN  /\ Len(st.results) = n
                    /\ Counted(st) = n
                    /\ \E p \in Permutations(1..n) :
                          \A m \in 1..n :
                              st.results[p[m]].document
                                  = DocumentLabel(tasks[k].documents[m], m) ]_vars

\* The step ends task k: its coroutine returns.
Ends(k) == tasks[k].pc # "done" /\ tasks'[k].pc = "done"

\* The step continues task k.
Steps(k) == Len(tasks') = Len(tasks) /\ tasks'[k] # tasks[k]

FailedJobs(task) == { m \in 1..Len(task.jobs) : ~task.jobs[m].result.success }

\* C11 (as claimed): when the task of a batch of N documents ends after a job
\* has run for each of them, k of which failed, the batch's status is
\* completed with failed = k and completed = N - k.
C11_CompletedWithFailures ==
    [][ \A k \in 1..Len(tasks) :
            (Ends(k) /\ Len(tasks'[k].jobs) = Len(tasks[k].documents)) =>
                LET st == migration_status'[tasks[k].task_id]
                    bad == Cardinality(FailedJobs(tasks'[k]))
                IN  /\ st.status = "completed"
                    /\ st.failed = bad
                    /\ st.completed = Len(tasks[k].documents) - bad ]_vars

\* A step in which a job of task k other than the suspended one ends while
\* the suspended one stays suspended.
LaterJobEnds(k) ==
    /\ Next
    /\ tasks'[k].pc = tasks[k].pc
    /\ tasks'[k].i = tasks[k].i
    /\ tasks'[k].jobs # tasks[k].jobs

\* C12 (as claimed): while a job of a batch is suspended on its external call
\* and documents of the batch are still waiting, another job of the same
\* batch can run to its end.
C12_JobsOverlap ==
    \A k \in 1..Len(tasks) :
        (tasks[k].pc \in {"pandoc", "http"} /\ tasks[k].i < Len(tasks[k].documents))
            => ENABLED LaterJobEnds(k)

\* C13: a read of an id that is not in the registry returns the not-found
\* error and changes neither the registry nor any task.
C13_UnknownIdNotFound ==
    [][ (Polled /\ reply'.task_id \notin Registered)
            => /\ reply'.body = [error |-> "not found"]
               /\ migration_status' = migration_status
               /\ tasks' = tasks ]_vars

\* C13 witness: with a batch registered under one id, a read of another id
\* that no batch was submitted under returned the not-found error.
C13_Witness ==
    /\ reply.task_id \in TaskIds
    /\ reply.task_id \notin Registered
    /\ \A k \in 1..Len(tasks) : tasks[k].task_id # reply.task_id
    /\ Registered # {}
    /\ reply.body = [error |-> "not found"]

PageKeys == {"page_id", "page_url"}

\* C14 (as claimed): whatever a migrator call ends with, it returns a result;
\* a failure carries a non-empty error message and no page id or url, a
\* success carries both.
C14_FailureIsReported ==
    job.pc = "returned" =>
        IF job.result.success
        THEN PageKeys \subseteq DOMAIN job.result
        ELSE /\ "error" \in DOMAIN job.result
             /\ job.result.error # << >>
             /\ PageKeys \cap DOMAIN job.result = {}

HasError(st) == "error" \in DOMAIN st

\* C15 (as claimed): a status carries the fatal error exactly when its state
\* is failed, and a step makes the state failed only when a task ends in the
\* outer handler, without a result folded for the document it was at.
C15_FatalErrorIffFailed ==
    [][ \A id \in DOMAIN migration_status' :
            LET st == migration_status'[id]
            IN  /\ HasError(st) <=> st.status = "failed"
                /\ (st.status = "failed"
                        /\ (id \notin Registered \/ migration_status[id].status # "failed"))
                    => \E k \in 1..Len(tasks) :
                          /\ tasks[k].task_id = id
                          /\ Ends(k)
                          /\ tasks'[k].i <= Len(tasks[k].documents)
                          /\ ~IsDict(tasks[k].documents[tasks'[k].i]) ]_vars

\* C16: when pandoc fails for a document, the task posts no request for it
\* and folds the failure carrying pandoc's error, as the first result added
\* to the batch's status in that step.
C16_TransformFailureShortCircuits ==
    [][ \A k \in 1..Len(tasks) :
            /\ \A m \in 1..Len(tasks'[k].jobs) :
                  tasks'[k].jobs[m].pandoc = "failed"
                      => /\ tasks'[k].jobs[m].posts = 0
                         /\ tasks'[k].jobs[m].result = Failure(PandocError)
            /\ tasks'[k].pandoc = "failed" => tasks'[k].pc # "http"
            /\ (Steps(k) /\ tasks[k].pc = "pandoc" /\ Len(tasks'[k].jobs) > Len(tasks[k].jobs)
                    /\ tasks'[k].jobs[Len(tasks[k].jobs) + 1].pandoc = "failed")
                => LET old == migration_status[tasks[k].task_id].results
                       new == migration_status'[tasks[k].task_id].results
                   IN  /\ Len(new) > Len(old)
                       /\ new[Len(old) + 1] =
                            [ document |-> tasks'[k].jobs[Len(tasks[k].jobs) + 1].label,
                              result |-> Failure(PandocError) ] ]_vars

\* C16 witness: a Confluence batch whose first document failed in pandoc,
\* with no request posted for it, went on to post its second document.
C16_Witness ==
    \E k \in 1..Len(tasks) :
        /\ Len(tasks[k].jobs) >= 1
        /\ tasks[k].jobs[1].pandoc = "failed"
        /\ tasks[k].jobs[1].transforms = 1
        /\ tasks[k].jobs[1].posts = 0
        /\ tasks[k].pc = "http"
        /\ migration_status[tasks[k].task_id].failed >= 1

\* C17 (as claimed): a task never goes back to a document, starts pandoc and
\* the POST at most once for each, and has produced exactly one result per
\* submitted document when it ends.
C17_AttemptedOnce ==
    [][ \A k \in 1..Len(tasks) :
            /\ tasks'[k].i >= tasks[k].i
            /\ tasks'[k].transforms <= 1
            /\ tasks'[k].posts <= 1
            /\ \A m \in 1..Len(tasks'[k].jobs) :
                  tasks'[k].jobs[m].transforms <= 1 /\ tasks'[k].jobs[m].posts <= 1
            /\ Len(tasks'[k].jobs) = tasks'[k].i - 1
            /\ Ends(k) => Len(tasks'[k].jobs) = Len(tasks[k].documents) ]_vars

\* C18 (as claimed): a step of one batch's task changes no registry entry but
\* the one under its own id, and leaves what a read of any other submitted
\* batch returns unchanged.
C18_BatchesIndependent ==
    [][ \A k \in 1..Len(tasks) :
            Steps(k) =>
                /\ \A id \in Registered \ {tasks[k].task_id} :
                      migration_status'[id] = migration_status[id]
                /\ \A j \in 1..Len(tasks) :
                      j # k => StatusReply(migration_status', tasks[j].task_id)
                                  = StatusReply(migration_status, tasks[j].task_id) ]_vars

\* The label the claim prescribes for the document at 1-based position m.
ExpectedLabel(doc, m) ==
    IF "title" \in DOMAIN doc THEN doc.title
    ELSE IF m = 1 THEN "Document 1"
    ELSE IF m = 2 THEN "Document 2"
    ELSE "Document 3"

Unshared(k) == \A j \in 1..Len(tasks) : j # k => tasks[j].task_id # tasks[k].task_id

InFlight(task) == task.pc \in {"pandoc", "http", "pandoc_hung"}

\* C21: for a batch whose id no other batch has, the results in its status
\* are, position by position, the results of its first documents, one per
\* document its task has finished with; a job is in flight only for the
\* document right after those, so never more than one.
C21_SequentialInOrder ==
    \A k \in 1..Len(tasks) :
        Unshared(k) =>
            LET task == tasks[k]
                results == migration_status[task.task_id].results
            IN  /\ Len(results) = Len(task.jobs)
                /\ Len(task.jobs) = task.i - 1
                /\ \A m \in 1..Len(results) :
                      results[m] = [ document |-> ExpectedLabel(task.documents[m], m),
                                     result |-> task.jobs[m].result ]
                /\ InFlight(task) =>
                      /\ task.i <= Len(task.documents)
                      /\ task.transforms + task.posts \in 1..2
                /\ ~InFlight(task) => task.transforms + task.posts = 0

\* C21 witness: of two batches under different ids, one holds the failed
\* result of its titled first document while its untitled second is posted.
C21_Witness ==
    /\ Len(tasks) = 2
    /\ tasks[1].task_id # tasks[2].task_id
    /\ \E k \in 1..2 :
          LET results == migration_status[tasks[k].task_id].results
          IN  /\ tasks[k].pc = "http"
              /\ tasks[k].i = 2
              /\ Len(results) = 1
              /\ results[1].document = "A"
              /\ ~results[1].result.success

\* C22 (as claimed): a task whose platform is neither confluence nor notion
\* never starts pandoc or a POST, and when it ends every document has a
\* failed result naming the unsupported platform and the status is completed
\* with failed = total and completed = 0.
C22_UnsupportedPlatform ==
    [][ \A k \in 1..Len(tasks) :
            tasks[k].target_platform \notin {"confluence", "notion"} =>
                /\ tasks'[k].transforms = 0
                /\ tasks'[k].posts = 0
                /\ tasks'[k].pc \in {"created", "done"}
                /\ Ends(k) =>
                      LET st == migration_status'[tasks[k].task_id]
                      IN  /\ Len(tasks'[k].jobs) = Len(tasks[k].documents)
                          /\ \A m \in 1..Len(tasks'[k].jobs) :
                                /\ tasks'[k].jobs[m].transforms = 0
                                /\ tasks'[k].jobs[m].posts = 0
                                /\ tasks'[k].jobs[m].result =
                                      [ success |-> FALSE,
                                        error |-> <<"unsupported platform:",
                                                    tasks[k].target_platform>> ]
                          /\ st.status = "completed"
                          /\ st.failed = st.total
                          /\ st.completed = 0 ]_vars

====
